---------------------------- MODULE Spec2Model ----------------------------
(***************************************************************************)
(* Model of Visualisation/visualiser.c: a UDP listener that parses         *)
(* "rms,pitch" text records and repaints two 40-column bar gauges.         *)
(*                                                                         *)
(* Characters are one-character strings; a C string is a sequence of       *)
(* characters ended by NUL.  A float is an IEEE-754 binary32 value         *)
(* [neg, man, ex] standing for (-1)^neg * man * 2^ex, with man = 0 (zero)  *)
(* or 2^23 <= man < 2^24; every float operation rounds to nearest, ties to *)
(* even, as the hardware does.                                             *)
(***************************************************************************)
EXTENDS Integers, Sequences, FiniteSets

(***************************************************************************)
(* Bounds of the model                                                     *)
(***************************************************************************)
\* recvfrom calls made in one run of the listen loop
MaxRecv == 3
\* length of the payloads enumerated over Alphabet
MaxLen == 4
\* loudness inputs of the renderer: -MaxCenti/100 .. MaxCenti/100
MaxCenti == 45
\* pitch inputs of the renderer: -MinPitchAbs .. MaxPitch
MaxPitch == 1003
MinPitchAbs == 3

(***************************************************************************)
(* binary32 arithmetic                                                     *)
(***************************************************************************)
ManBits == 24
ManLo == 2^(ManBits - 1)
ManHi == 2^ManBits

FZero == [neg |-> FALSE, man |-> 0, ex |-> 0]

\* number of low bits to drop so that m fits the 24-bit significand
RECURSIVE DropBits(_)
DropBits(m) == IF m < ManHi THEN 0 ELSE 1 + DropBits(m \div 2)

\* number of doublings that bring m >= 1 up to 2^23
RECURSIVE LiftBits(_)
LiftBits(m) == IF m >= ManLo THEN 0 ELSE 1 + LiftBits(2 * m)

\* the binary32 nearest to (-1)^neg * m * 2^e (round to nearest, ties to even)
FRound(neg, m, e) ==
    IF m = 0 THEN [neg |-> neg, man |-> 0, ex |-> 0]
    ELSE IF m < ManLo
         THEN LET k == LiftBits(m) IN [neg |-> neg, man |-> m * 2^k, ex |-> e - k]
    ELSE LET k    == DropBits(m)
             q    == m \div 2^k
             r    == m % 2^k
             half == IF k = 0 THEN 1 ELSE 2^(k - 1)
             up   == k > 0 /\ (r > half \/ (r = half /\ q % 2 = 1))
             q2   == IF up THEN q + 1 ELSE q
         IN  IF q2 = ManHi THEN [neg |-> neg, man |-> ManLo, ex |-> e + k + 1]
             ELSE [neg |-> neg, man |-> q2, ex |-> e + k]

\* (float)n for an int n
FloatOfInt(n) == FRound(n < 0, IF n < 0 THEN -n ELSE n, 0)

\* k more quotient bits of r / d (r < d), by long division: <<quotient, remainder>>
RECURSIVE LongDiv(_, _, _, _)
LongDiv(r, d, q, k) ==
    IF k = 0 THEN <<q, r>>
    ELSE IF 2 * r >= d THEN LongDiv(2 * r - d, d, 2 * q + 1, k - 1)
    ELSE LongDiv(2 * r, d, 2 * q, k - 1)

\* a / b for floats, b # 0: the quotient of the significands to 26 bits and a
\* sticky bit, rounded once
FDiv(a, b) ==
    IF a.man = 0 THEN [neg |-> a.neg # b.neg, man |-> 0, ex |-> 0]
    ELSE LET qr == LongDiv(a.man % b.man, b.man, a.man \div b.man, ManBits + 1)
             sticky == IF qr[2] = 0 THEN 0 ELSE 1
         IN  FRound(a.neg # b.neg, 2 * qr[1] + sticky, a.ex - b.ex - ManBits - 2)

\* a * k for a float a and the float of a small int k (the product is exact
\* in 30 bits and rounded once)
FMulInt(a, k) == FRound(a.neg # (k < 0), a.man * (IF k < 0 THEN -k ELSE k), a.ex)

\* a < b
FLess(a, b) ==
    LET mag(x, y) == \* |x| < |y|
            IF y.man = 0 THEN FALSE
            ELSE IF x.man = 0 THEN TRUE
            ELSE x.ex < y.ex \/ (x.ex = y.ex /\ x.man < y.man)
    IN  IF a.man = 0 /\ b.man = 0 THEN FALSE
        ELSE IF a.neg /\ ~b.neg THEN TRUE
        ELSE IF ~a.neg /\ b.neg THEN FALSE
        ELSE IF a.neg THEN mag(b, a)
        ELSE mag(a, b)

fmaxf(a, b) == IF FLess(a, b) THEN b ELSE a
fminf(a, b) == IF FLess(b, a) THEN b ELSE a

\* (int)a: truncation toward zero
IntOfFloat(a) ==
    LET mag == IF a.ex >= 0 THEN a.man * 2^a.ex
               ELSE IF -a.ex >= ManBits THEN 0
               ELSE a.man \div 2^(-a.ex)
    IN  IF a.neg THEN -mag ELSE mag

\* a - b for floats with 0 <= b <= a whose exponents differ by less than 7:
\* the significands are aligned on the smaller exponent and the exact
\* difference is rounded once
FSub(a, b) ==
    IF b.man = 0 THEN a
    ELSE LET e == IF a.ex < b.ex THEN a.ex ELSE b.ex
         IN  FRound(FALSE, a.man * 2^(a.ex - e) - b.man * 2^(b.ex - e), e)


(***************************************************************************)
(* Program constants                                                       *)
(***************************************************************************)
\* 0.4f = 13421773 * 2^-25 (0x3ECCCCCD)
MAX_RMS_FOR_BAR == [neg |-> FALSE, man |-> 13421773, ex |-> -25]
BAR_WIDTH == 40
PITCH_MIN_HZ == FloatOfInt(100)
PITCH_MAX_HZ == FloatOfInt(1000)
BAR_CHAR == "."
PORT == 12345
EXIT_FAILURE == 1
\* exit_status of a process that has not exited
Running == -1

NUL == "NUL"
Digits == {"0", "1", "2", "3", "4", "5", "6", "7", "8", "9"}

DigitVal(c) ==
    CASE c = "0" -> 0 [] c = "1" -> 1 [] c = "2" -> 2 [] c = "3" -> 3
      [] c = "4" -> 4 [] c = "5" -> 5 [] c = "6" -> 6 [] c = "7" -> 7
      [] c = "8" -> 8 [] c = "9" -> 9

DigitChar(d) == <<"0", "1", "2", "3", "4", "5", "6", "7", "8", "9">>[d + 1]

(***************************************************************************)
(* C library: strings, strtok, atof, atoi, printf("%d")                    *)
(***************************************************************************)
\* first index at or after i whose character is not the delimiter
RECURSIVE SkipDelim(_, _, _)
SkipDelim(buf, i, delim) ==
    IF i <= Len(buf) /\ buf[i] = delim THEN SkipDelim(buf, i + 1, delim) ELSE i

\* first index at or after i whose character is the delimiter or NUL
RECURSIVE FindDelim(_, _, _)
FindDelim(buf, i, delim) ==
    IF i > Len(buf) \/ buf[i] = delim \/ buf[i] = NUL THEN i
    ELSE FindDelim(buf, i + 1, delim)

\* strtok scanning buf from index from: leading delimiters are skipped, the
\* token runs to the next delimiter, which is overwritten by NUL, and the
\* scan position after it is saved.  null: no token was left.
strtok(buf, from, delim) ==
    LET start == SkipDelim(buf, from, delim)
        stop  == FindDelim(buf, start, delim)
    IN  IF start > Len(buf) \/ buf[start] = NUL
        THEN [null |-> TRUE, tok |-> <<>>, buf |-> buf, save |-> start]
        ELSE IF stop <= Len(buf) /\ buf[stop] = delim
        THEN [null |-> FALSE, tok |-> SubSeq(buf, start, stop - 1),
              buf |-> [buf EXCEPT ![stop] = NUL], save |-> stop + 1]
        ELSE [null |-> FALSE, tok |-> SubSeq(buf, start, stop - 1),
              buf |-> buf, save |-> stop]

\* number of decimal digits of s from index i on
RECURSIVE DigitRun(_, _)
DigitRun(s, i) ==
    IF i <= Len(s) /\ s[i] \in Digits THEN 1 + DigitRun(s, i + 1) ELSE 0

\* value of the k decimal digits of s that start at index i
RECURSIVE DigitsValue(_, _, _)
DigitsValue(s, i, k) ==
    IF k = 0 THEN 0
    ELSE 10 * DigitsValue(s, i, k - 1) + DigitVal(s[i + k - 1])

\* index after an optional sign at the head of s
AfterSign(s) == IF Len(s) >= 1 /\ s[1] \in {"-", "+"} THEN 2 ELSE 1

\* atof, stored into a float: the longest prefix [sign] digits [. digits]
\* with at least one digit, 0.0 when there is none.  (Exponents, inf, nan,
\* hexadecimal and leading white space need characters outside Alphabet.)
atof(s) ==
    LET neg == Len(s) >= 1 /\ s[1] = "-"
        p   == AfterSign(s)
        ni  == DigitRun(s, p)
        dot == p + ni <= Len(s) /\ s[p + ni] = "."
        nf  == IF dot THEN DigitRun(s, p + ni + 1) ELSE 0
        num == DigitsValue(s, p, ni) * 10^nf + DigitsValue(s, p + ni + 1, nf)
    IN  IF ni + nf = 0 THEN FZero
        ELSE FDiv(FRound(neg, num, 0), FloatOfInt(10^nf))

\* atoi: [sign] digits, 0 when there is no digit
atoi(s) ==
    LET p == AfterSign(s)
        v == DigitsValue(s, p, DigitRun(s, p))
    IN  IF Len(s) >= 1 /\ s[1] = "-" THEN -v ELSE v

\* the characters printf("%d") writes for v
RECURSIVE Itoa(_)
Itoa(v) ==
    IF v < 0 THEN <<"-">> \o Itoa(-v)
    ELSE IF v < 10 THEN <<DigitChar(v)>>
    ELSE Itoa(v \div 10) \o <<DigitChar(v % 10)>>

\* k calls of putchar(c)
Rep(c, k) == [i \in 1..k |-> c]

(***************************************************************************)
(* Renderer                                                                *)
(***************************************************************************)
\* clear_terminal that leaves the display as it was
clear_terminal_Noop(term) == term

\* system("clear"): the display is emptied
clear_terminal(term) == << >>

\* rms_bar_length without the upper clamp fminf(., MAX_RMS_FOR_BAR)
rms_bar_length_NoClamp(rms_value) ==
    IntOfFloat(FMulInt(FDiv(fmaxf(rms_value, FZero), MAX_RMS_FOR_BAR), BAR_WIDTH))

\* (int)(scaled_rms * BAR_WIDTH)
rms_bar_length(rms_value) ==
    LET scaled_rms == FDiv(fminf(fmaxf(rms_value, FZero), MAX_RMS_FOR_BAR),
                           MAX_RMS_FOR_BAR)
    IN  IntOfFloat(FMulInt(scaled_rms, BAR_WIDTH))

\* (int)(scaled_pitch * BAR_WIDTH)
pitch_bar_length(pitch_value) ==
    LET clamped == fminf(fmaxf(FloatOfInt(pitch_value), PITCH_MIN_HZ), PITCH_MAX_HZ)
        scaled_pitch ==
            IF pitch_value > 0
            THEN FDiv(FSub(clamped, PITCH_MIN_HZ), FSub(PITCH_MAX_HZ, PITCH_MIN_HZ))
            ELSE FZero
    IN  IntOfFloat(FMulInt(scaled_pitch, BAR_WIDTH))

\* the two loops that draw one bar: len filled characters, BAR_WIDTH - len spaces
\* (a for loop whose bound is not positive writes nothing)
Bar(len) ==
    Rep(BAR_CHAR, IF len > 0 THEN len ELSE 0)
        \o Rep(" ", IF BAR_WIDTH - len > 0 THEN BAR_WIDTH - len ELSE 0)

\* render_audio that prints pitch_value as it is, negative values included
render_audio_RawHz(term, rms_value, pitch_value) ==
    clear_terminal(term) \o
    << <<"---YOU ARE NOW CONNECTED TO FRANCOISE---">>,
       <<"RMS  : ">> \o Bar(rms_bar_length(rms_value)),
       <<"Pitch: ">> \o Bar(pitch_bar_length(pitch_value)) \o <<" ">>
           \o Itoa(pitch_value) \o <<" Hz">>,
       Rep("-", BAR_WIDTH + 7) >>

\* the display after render_audio(rms_value, pitch_value), a sequence of lines;
\* a line is the sequence of what printf and putchar wrote on it
render_audio(term, rms_value, pitch_value) ==
    clear_terminal(term) \o
    << <<"---YOU ARE NOW CONNECTED TO FRANCOISE---">>,
       <<"RMS  : ">> \o Bar(rms_bar_length(rms_value)),
       <<"Pitch: ">> \o Bar(pitch_bar_length(pitch_value)) \o <<" ">>
           \o Itoa(IF pitch_value > 0 THEN pitch_value ELSE 0) \o <<" Hz">>,
       Rep("-", BAR_WIDTH + 7) >>

(***************************************************************************)
(* Program state                                                           *)
(***************************************************************************)
VARIABLES
    pc,           \* position of main: "socket", "bind", "recvfrom", "dispatch",
                  \* "render" or "exited"
    sockfd,       \* the socket: "none", "open" or "closed"
    exit_status,  \* Running until the process exits
    n,            \* what the last recvfrom returned
    buffer,       \* the written part of char buffer[1024]
    rms_value,    \* parsed loudness
    pitch_value,  \* parsed pitch
    terminal,     \* standard output: the lines on the display
    stderr,       \* the perror messages, in order
    recvs,        \* number of recvfrom calls made
    received,     \* payloads of the datagrams received with n > 0, in order
    rendered      \* one record per render_audio call, in order

vars == <<pc, sockfd, exit_status, n, buffer, rms_value, pitch_value,
          terminal, stderr, recvs, received, rendered>>

\* payloads a sender may put in a datagram (the empty one is received as n = 0)
Datagrams ==
    { << >>,
      <<"0", ".", "1", ",", "2", "0", "0">>,
      <<"a", "b", "c", ",", "x", "y", "z">>,
      <<"0", ".", "3">>,
      <<",", "3", "4", "0">>,
      <<"0", ".", "2", ",", "5", "5", "0">>,
      <<"0", ".", "5", ",", "1", "2", "0", "0">>,
      <<"-", "0", ".", "1", ",", "-", "5">>,
      <<"0">> }

\* recvfrom stores the payload at the head of the buffer; what lay beyond it stays
StoreAt(buf, d) == d \o SubSeq(buf, Len(d) + 1, Len(buf))

\* the payload left without its terminating NUL
Terminate_Missing(buf, len) == buf

\* buffer[n] = '\0' (C index n is position n + 1)
Terminate(buf, len) ==
    IF len + 1 <= Len(buf) THEN [buf EXCEPT ![len + 1] = NUL]
    ELSE buf \o <<NUL>>

\* lines 120-131: terminate the payload, split it with strtok and convert the
\* tokens; the buffer is left as strtok changed it
ParseBuffer(buf, len) ==
    LET b0 == Terminate(buf, len)
        t1 == strtok(b0, 1, ",")
        t2 == strtok(t1.buf, t1.save, ",")
    IN  IF t1.null
        THEN [buf |-> t1.buf, rms |-> FZero, pitch |-> 0]
        ELSE [buf |-> t2.buf,
              rms |-> atof(t1.tok),
              pitch |-> IF t2.null THEN 0 ELSE atoi(t2.tok)]

Init ==
    /\ pc = "socket"
    /\ sockfd = "none"
    /\ exit_status = Running
    /\ n = 0
    /\ buffer = << >>
    /\ rms_value = FZero
    /\ pitch_value = 0
    /\ terminal = << >>
    /\ stderr = << >>
    /\ recvs = 0
    /\ received = << >>
    /\ rendered = << >>

\* lines 76-96, socket() succeeds
SocketOk ==
    /\ pc = "socket"
    /\ terminal' = Append(terminal, <<"C Visualiser starting...">>)
    /\ sockfd' = "open"
    /\ pc' = "bind"
    /\ UNCHANGED <<exit_status, n, buffer, rms_value, pitch_value, stderr,
                   recvs, received, rendered>>

\* lines 76-96, socket() fails: perror and exit(EXIT_FAILURE)
SocketFail ==
    /\ pc = "socket"
    /\ terminal' = Append(terminal, <<"C Visualiser starting...">>)
    /\ stderr' = Append(stderr, "socket creation failed")
    /\ exit_status' = EXIT_FAILURE
    /\ pc' = "exited"
    /\ UNCHANGED <<sockfd, n, buffer, rms_value, pitch_value,
                   recvs, received, rendered>>

\* lines 98-113, bind() succeeds
BindOk ==
    /\ pc = "bind"
    /\ terminal' = Append(terminal,
                          <<"C Visualiser listening on port ">> \o Itoa(PORT))
    /\ pc' = "recvfrom"
    /\ UNCHANGED <<sockfd, exit_status, n, buffer, rms_value, pitch_value,
                   stderr, recvs, received, rendered>>

\* bind failure that is reported but does not end the process
BindFail_NoExit ==
    /\ pc = "bind"
    /\ stderr' = Append(stderr, "bind failed")
    /\ sockfd' = "closed"
    /\ pc' = "recvfrom"
    /\ UNCHANGED <<exit_status, n, buffer, rms_value, pitch_value, terminal,
                   recvs, received, rendered>>

\* bind failure that exits without close(sockfd)
BindFail_NoClose ==
    /\ pc = "bind"
    /\ stderr' = Append(stderr, "bind failed")
    /\ exit_status' = EXIT_FAILURE
    /\ pc' = "exited"
    /\ UNCHANGED <<sockfd, n, buffer, rms_value, pitch_value, terminal,
                   recvs, received, rendered>>

\* lines 98-111, bind() fails: perror, close(sockfd) and exit(EXIT_FAILURE)
BindFail ==
    /\ pc = "bind"
    /\ stderr' = Append(stderr, "bind failed")
    /\ sockfd' = "closed"
    /\ exit_status' = EXIT_FAILURE
    /\ pc' = "exited"
    /\ UNCHANGED <<n, buffer, rms_value, pitch_value, terminal,
                   recvs, received, rendered>>

\* lines 116-118, recvfrom returns a datagram of Len(d) bytes
RecvDatagram ==
    /\ pc = "recvfrom"
    /\ recvs < MaxRecv
    /\ \E d \in Datagrams :
          /\ n' = Len(d)
          /\ buffer' = StoreAt(buffer, d)
          /\ received' = IF Len(d) > 0 THEN Append(received, d) ELSE received
    /\ recvs' = recvs + 1
    /\ pc' = "dispatch"
    /\ UNCHANGED <<sockfd, exit_status, rms_value, pitch_value, terminal,
                   stderr, rendered>>

\* lines 116-118, recvfrom fails
RecvFail ==
    /\ pc = "recvfrom"
    /\ recvs < MaxRecv
    /\ n' = -1
    /\ recvs' = recvs + 1
    /\ pc' = "dispatch"
    /\ UNCHANGED <<sockfd, exit_status, buffer, rms_value, pitch_value,
                   terminal, stderr, received, rendered>>

\* lines 119-131, n > 0: the payload is parsed into rms_value and pitch_value
Parse ==
    /\ pc = "dispatch"
    /\ n > 0
    /\ LET r == ParseBuffer(buffer, n)
       IN  /\ buffer' = r.buf
           /\ rms_value' = r.rms
           /\ pitch_value' = r.pitch
    /\ pc' = "render"
    /\ UNCHANGED <<sockfd, exit_status, n, terminal, stderr, recvs,
                   received, rendered>>

\* line 132 and lines 35-73: render_audio(rms_value, pitch_value), then the
\* loop goes back to recvfrom
Render ==
    /\ pc = "render"
    /\ terminal' = render_audio(terminal, rms_value, pitch_value)
    /\ rendered' = Append(rendered, [payload |-> received[Len(received)],
                                     rms |-> rms_value,
                                     pitch |-> pitch_value,
                                     out |-> terminal'])
    /\ pc' = "recvfrom"
    /\ UNCHANGED <<sockfd, exit_status, n, buffer, rms_value, pitch_value,
                   stderr, recvs, received>>

\* receive failure handled as fatal: perror, close(sockfd), exit(EXIT_FAILURE)
RecvError_Exit ==
    /\ pc = "dispatch"
    /\ n < 0
    /\ stderr' = Append(stderr, "recvfrom error")
    /\ sockfd' = "closed"
    /\ exit_status' = EXIT_FAILURE
    /\ pc' = "exited"
    /\ UNCHANGED <<n, buffer, rms_value, pitch_value, terminal, recvs,
                   received, rendered>>

\* lines 133-136, n < 0: perror, and the loop goes back to recvfrom
RecvError ==
    /\ pc = "dispatch"
    /\ n < 0
    /\ stderr' = Append(stderr, "recvfrom error")
    /\ pc' = "recvfrom"
    /\ UNCHANGED <<sockfd, exit_status, n, buffer, rms_value, pitch_value,
                   terminal, recvs, received, rendered>>

\* n = 0 falling into the error branch (else in place of else if (n < 0))
RecvEmpty_Logs ==
    /\ pc = "dispatch"
    /\ n = 0
    /\ stderr' = Append(stderr, "recvfrom error")
    /\ pc' = "recvfrom"
    /\ UNCHANGED <<sockfd, exit_status, n, buffer, rms_value, pitch_value,
                   terminal, recvs, received, rendered>>

\* n = 0 taken as the end of the stream: break, close(sockfd), return 0
RecvEmpty_Break ==
    /\ pc = "dispatch"
    /\ n = 0
    /\ sockfd' = "closed"
    /\ exit_status' = 0
    /\ pc' = "exited"
    /\ UNCHANGED <<n, buffer, rms_value, pitch_value, terminal, stderr,
                   recvs, received, rendered>>

\* lines 119-139, n = 0: neither branch is taken
RecvEmpty ==
    /\ pc = "dispatch"
    /\ n = 0
    /\ pc' = "recvfrom"
    /\ UNCHANGED <<sockfd, exit_status, n, buffer, rms_value, pitch_value,
                   terminal, stderr, recvs, received, rendered>>

Next ==
    \/ SocketOk
    \/ SocketFail
    \/ BindOk
    \/ BindFail
    \/ RecvDatagram
    \/ RecvFail
    \/ Parse
    \/ Render
    \/ RecvError
    \/ RecvEmpty

Spec == Init /\ [][Next]_vars

(***************************************************************************)
(* The loop body alone, started where recvfrom has just returned a payload *)
(***************************************************************************)
\* the state of the listen loop right after its first recvfrom returned d
AfterFirstRecv(d) ==
    /\ pc = "dispatch"
    /\ sockfd = "open"
    /\ exit_status = Running
    /\ n = Len(d)
    /\ buffer = d
    /\ rms_value = FZero
    /\ pitch_value = 0
    /\ terminal = << <<"C Visualiser starting...">>,
                     <<"C Visualiser listening on port ">> \o Itoa(PORT) >>
    /\ stderr = << >>
    /\ recvs = 1
    /\ received = <<d>>
    /\ rendered = << >>

LoopBody == Parse \/ Render

\* characters of the enumerated payloads: digits, the point, the delimiter, a
\* sign and a letter
Alphabet == {"0", "2", "5", ".", ",", "-", "a"}

\* every payload of 1 to MaxLen characters of Alphabet
Payloads == UNION {[1..k -> Alphabet] : k \in 1..MaxLen}

InitParse == \E d \in Payloads : AfterFirstRecv(d)

SpecParse == InitParse /\ [][LoopBody]_vars

\* the text "<c/100>,<p>" a producer sends for loudness c/100 and pitch p
FormatSample(c, p) ==
    LET a == IF c < 0 THEN -c ELSE c
    IN  (IF c < 0 THEN <<"-">> ELSE << >>)
        \o Itoa(a \div 100) \o <<".", DigitChar((a % 100) \div 10), DigitChar(a % 10)>>
        \o <<",">> \o Itoa(p)

\* loudness and pitch values paired with every value of the other range
CentiMarks == {-1, 0, 20, 40}
PitchMarks == {-1, 0, 550, 1000}

\* every loudness of -MaxCenti/100 .. MaxCenti/100 in steps of 0.01 with the
\* pitches of PitchMarks, and every pitch of -MinPitchAbs .. MaxPitch with
\* the loudnesses of CentiMarks
SamplePayloads ==
    {FormatSample(c, p) : c \in (-MaxCenti)..MaxCenti, p \in PitchMarks}
    \cup {FormatSample(c, p) : c \in CentiMarks, p \in (-MinPitchAbs)..MaxPitch}

InitRender == \E d \in SamplePayloads : AfterFirstRecv(d)

SpecRender == InitRender /\ [][LoopBody]_vars

(***************************************************************************)
(* Properties                                                              *)
(***************************************************************************)
\* positions of main inside while (1)
LoopPcs == {"recvfrom", "dispatch", "render"}

StartupFailures == {"socket creation failed", "bind failed"}

\* a startup failure has been reported
StartupFailed == \E i \in 1..Len(stderr) : stderr[i] \in StartupFailures

\* C1: when socket creation or bind fails, the error is reported and the
\* process has exited with a non-zero status without entering the listen
\* loop: no recvfrom was attempted and render_audio was never called.
C1_FatalStartupExits ==
    /\ StartupFailed =>
          /\ pc = "exited"
          /\ exit_status # Running /\ exit_status # 0
          /\ recvs = 0 /\ received = << >> /\ rendered = << >>
    /\ (pc = "exited" /\ recvs = 0) => StartupFailed

C1_Witness ==
    /\ pc = "exited"
    /\ stderr = <<"socket creation failed">>
    /\ exit_status = EXIT_FAILURE

\* C2: a recvfrom that returned n < 0 is answered by one diagnostic and
\* nothing else: nothing is parsed or rendered, the process keeps running,
\* the socket stays open and the next step is the next recvfrom; this holds
\* at every failure, so for any number of consecutive ones.
C2_RecvFailureContinues ==
    [][(pc = "dispatch" /\ n < 0) =>
          /\ pc' = "recvfrom"
          /\ stderr' = Append(stderr, "recvfrom error")
          /\ sockfd' = "open" /\ sockfd = "open"
          /\ exit_status' = Running
          /\ UNCHANGED <<buffer, rms_value, pitch_value, terminal, received,
                         rendered, recvs>>]_vars

C2_Witness ==
    /\ pc = "recvfrom"
    /\ recvs = 2
    /\ stderr = <<"recvfrom error", "recvfrom error">>
    /\ sockfd = "open"
    /\ exit_status = Running

\* C3: a recvfrom that returned 0 is inert: the receive changes nothing but
\* n, and the dispatch that follows renders nothing, reports nothing,
\* changes no variable of the program and goes back to recvfrom.
C3_ZeroLengthInert ==
    [][/\ (pc = "recvfrom" /\ pc' = "dispatch" /\ n' = 0) =>
              UNCHANGED <<sockfd, exit_status, buffer, rms_value, pitch_value,
                          terminal, stderr, received, rendered>>
       /\ (pc = "dispatch" /\ n = 0) =>
              /\ pc' = "recvfrom"
              /\ UNCHANGED <<sockfd, exit_status, n, buffer, rms_value,
                             pitch_value, terminal, stderr, received,
                             rendered, recvs>>]_vars

C3_Witness ==
    /\ pc = "recvfrom"
    /\ n = 0
    /\ recvs = 2
    /\ Len(rendered) = 1
    /\ terminal = rendered[1].out
    /\ stderr = << >>

\* index of the first comma of d at or after i (Len(d) + 1 when there is none)
RECURSIVE CommaAt(_, _)
CommaAt(d, i) ==
    IF i > Len(d) \/ d[i] = "," THEN i ELSE CommaAt(d, i + 1)

\* the comma-separated fields 1 and 2 of a payload (empty when absent)
Field1(d) == SubSeq(d, 1, CommaAt(d, 1) - 1)
Field2(d) ==
    LET c == CommaAt(d, 1)
    IN  IF c > Len(d) THEN << >> ELSE SubSeq(d, c + 1, CommaAt(d, c + 1) - 1)

\* C4: for every received payload the parser yields loudness = the numeric
\* value of comma-separated field 1 and pitch = the integer value of field 2
\* (zero for an absent, empty or non-numeric field), whatever follows.
C4_FieldValues ==
    pc = "render" =>
        /\ rms_value = atof(Field1(received[Len(received)]))
        /\ pitch_value = atoi(Field2(received[Len(received)]))

\* number of BAR_CHAR that line holds in a row from index i on
RECURSIVE FilledFrom(_, _)
FilledFrom(line, i) ==
    IF i <= Len(line) /\ line[i] = BAR_CHAR THEN 1 + FilledFrom(line, i + 1) ELSE 0

\* 0.2f = 13421773 * 2^-26 (0x3E4CCCCD)
F0_2 == [neg |-> FALSE, man |-> 13421773, ex |-> -26]

\* trunc(clamp(v, 0.0, 0.4) / 0.4 * 40), each operation in binary32
C5_Columns(v) ==
    LET clamped == IF FLess(v, FZero) THEN FZero
                   ELSE IF FLess(MAX_RMS_FOR_BAR, v) THEN MAX_RMS_FOR_BAR
                   ELSE v
    IN  IntOfFloat(FMulInt(FDiv(clamped, MAX_RMS_FOR_BAR), 40))

\* C5: for every loudness v rendered, the loudness line is the label, L
\* filled characters and exactly 40 - L spaces, with
\* L = trunc(clamp(v, 0.0, 0.4) / 0.4 * 40) in the float arithmetic of the
\* program, 0 <= L <= 40, L = 0 for v <= 0, L = 40 for v >= 0.4 and L = 20
\* for v = 0.2.
C5_LoudnessBar ==
    \A i \in 1..Len(rendered) :
        LET v    == rendered[i].rms
            line == rendered[i].out[2]
            L    == FilledFrom(line, 2)
        IN  /\ L >= 0 /\ L <= 40
            /\ line = <<"RMS  : ">> \o Rep(".", L) \o Rep(" ", 40 - L)
            /\ Len(line) = 41
            /\ L = C5_Columns(v)
            /\ ~FLess(FZero, v) => L = 0
            /\ ~FLess(v, MAX_RMS_FOR_BAR) => L = 40
            /\ v = F0_2 => L = 20

C5_Witness ==
    \E i \in 1..Len(rendered) :
        /\ rendered[i].rms = F0_2
        /\ FilledFrom(rendered[i].out[2], 2) = 20

\* trunc((clamp(p, 100, 1000) - 100) / 900 * 40) for p > 0, in integers
C6_Columns(p) ==
    LET clamped == IF p < 100 THEN 100 ELSE IF p > 1000 THEN 1000 ELSE p
    IN  IF p <= 0 THEN 0 ELSE ((clamped - 100) * 40) \div 900

\* C6: for every pitch p rendered, the pitch line is the label, P filled
\* characters, exactly 40 - P spaces and the frequency, with P = 0 for
\* p <= 0 and P = trunc((clamp(p, 100, 1000) - 100) / 900 * 40) otherwise;
\* P = 0 for p <= 100, P = 40 for p >= 1000, P = 20 for p = 550; the
\* frequency printed is p when p > 0 and 0 otherwise, never negative.
C6_PitchBar ==
    \A i \in 1..Len(rendered) :
        LET p    == rendered[i].pitch
            line == rendered[i].out[3]
            P    == FilledFrom(line, 2)
            hz   == SubSeq(line, 43, Len(line) - 1)
        IN  /\ P = C6_Columns(p)
            /\ SubSeq(line, 1, 42) =
                   <<"Pitch: ">> \o Rep(".", P) \o Rep(" ", 40 - P) \o <<" ">>
            /\ line[Len(line)] = " Hz"
            /\ p <= 100 => P = 0
            /\ p >= 1000 => P = 40
            /\ p = 550 => P = 20
            /\ Len(hz) >= 1 /\ \A k \in 1..Len(hz) : hz[k] \in Digits
            /\ DigitsValue(hz, 1, Len(hz)) = IF p > 0 THEN p ELSE 0

C6_Witness ==
    \E i \in 1..Len(rendered) :
        /\ rendered[i].pitch = 550
        /\ FilledFrom(rendered[i].out[3], 2) = 20
        /\ SubSeq(rendered[i].out[3], 43, 46) = <<"5", "5", "0", " Hz">>

\* what parsing payload d alone yields
SampleOf(d) == ParseBuffer(d, Len(d))

\* C7: receiving and rendering alternate: every datagram received with
\* n > 0 is parsed and rendered exactly once, in arrival order, before the
\* next recvfrom; every render shows the payload of the positive-length
\* receive just before it; at most one sample is in flight.
C7_ReceiveRenderAlternate ==
    /\ Len(rendered) <= Len(received)
    /\ Len(received) <= Len(rendered) + 1
    /\ pc = "recvfrom" => Len(rendered) = Len(received)
    /\ pc = "render" =>
          /\ n > 0
          /\ Len(received) = Len(rendered) + 1
          /\ n = Len(received[Len(received)])
          /\ rms_value = SampleOf(received[Len(received)]).rms
          /\ pitch_value = SampleOf(received[Len(received)]).pitch
    /\ pc = "dispatch" =>
          Len(received) = Len(rendered) + (IF n > 0 THEN 1 ELSE 0)
    /\ \A i \in 1..Len(rendered) :
          /\ rendered[i].payload = received[i]
          /\ rendered[i].rms = SampleOf(received[i]).rms
          /\ rendered[i].pitch = SampleOf(received[i]).pitch
          /\ rendered[i].out =
                 render_audio(<< >>, rendered[i].rms, rendered[i].pitch)
    /\ (pc = "recvfrom" /\ Len(rendered) > 0) =>
          terminal = rendered[Len(rendered)].out

C7_Witness ==
    /\ pc = "recvfrom"
    /\ Len(rendered) = 2
    /\ Len(received[1]) > Len(received[2])
    /\ rendered[2].pitch = 0
    /\ rendered[1].pitch = 200

\* the listen loop has been entered
LoopEntered == pc \in LoopPcs \/ recvs > 0

\* C8: once the listen loop is entered the program stays in it whatever
\* recvfrom returns: it never exits, never closes the socket, and never
\* ends with status 0.
C8_LoopNeverLeft ==
    /\ exit_status # 0
    /\ LoopEntered =>
          /\ pc \in LoopPcs
          /\ sockfd = "open"
          /\ exit_status = Running

C8_Witness ==
    /\ pc = "recvfrom"
    /\ recvs = 3
    /\ Len(stderr) = 1
    /\ Len(rendered) = 1
    /\ n = 0

\* C9: the process never exits on a fatal path holding an open socket: after
\* a bind failure the socket was closed, after a socket-creation failure
\* there is no socket.
C9_SocketReleasedOnFatalExit ==
    pc = "exited" =>
        /\ sockfd # "open"
        /\ stderr[Len(stderr)] = "bind failed" => sockfd = "closed"
        /\ stderr[Len(stderr)] = "socket creation failed" => sockfd = "none"

C9_Witness ==
    /\ pc = "exited"
    /\ stderr = <<"bind failed">>
    /\ sockfd = "closed"
    /\ exit_status = EXIT_FAILURE

\* C10: what a render leaves on the display depends only on the sample:
\* two renders of the same sample, and two receipts of the same payload
\* whatever came in between, leave the same display.
C10_RenderHistoryFree ==
    \A i, j \in 1..Len(rendered) :
        /\ (rendered[i].rms = rendered[j].rms
              /\ rendered[i].pitch = rendered[j].pitch)
               => rendered[i].out = rendered[j].out
        /\ rendered[i].payload = rendered[j].payload
               => rendered[i].out = rendered[j].out

C10_Witness ==
    /\ Len(rendered) = 3
    /\ rendered[1].payload = rendered[3].payload
    /\ rendered[2].payload # rendered[1].payload
    /\ rendered[2].out # rendered[1].out
    /\ rendered[1].out = rendered[3].out

=============================================================================
